---------------------------- MODULE Spec2Model ----------------------------
(***************************************************************************)
(* A model of getcookie.py: the extraction of the browser's cookies for a  *)
(* domain, their decryption, and the merge into the storage-state file.    *)
(*                                                                         *)
(* Text that the program inspects character by character (domains, cookie  *)
(* names) is a sequence of one-character strings.  Byte strings are        *)
(* sequences of integers 0..255; a decoded cookie value is the sequence of *)
(* its code points.                                                        *)
(***************************************************************************)
EXTENDS Integers, Sequences, FiniteSets, TLC

VARIABLES
    pc,              \* position of main
    domain,          \* sys.argv[1]
    file,            \* content of cookies/storage.json on disk
    db,              \* rows of the browser's cookies table, in rowid order
    tmpExists,       \* the temporary copy of the cookie database exists
    pending,         \* exception travelling through get_cookies' finally
    password,        \* result of get_password
    cookies,         \* Cookie objects returned by get_cookies
    domains_queried, \* domains_to_query of get_cookies, returned to main
    storage_state,   \* the storage document in memory
    new_cookies,     \* the fresh batch in the automation tool's format
    err,             \* what ended the run in failure ("none" otherwise)
    writes,          \* how often this run has written the storage file
    fileBefore,      \* content of the storage file when the run started
    runs,            \* runs started so far
    prev,            \* the previous run: outcome, domain, file written, batch
    dpc,             \* position of a single Cookie.decrypted call
    dcookie,         \* the cookie it is called on
    ddecrypted,      \* its local `decrypted`
    dplaintext,      \* its local `plaintext`
    dresult          \* what it returned, or that it raised

mainVars == <<pc, domain, file, db, tmpExists, pending, password, cookies,
              domains_queried, storage_state, new_cookies, err, writes,
              fileBefore, runs, prev>>
decVars == <<dpc, dcookie, ddecrypted, dplaintext, dresult>>
vars == <<mainVars, decVars>>

---------------------------------------------------------------------------
(* Bounds of the model.                                                    *)

\* rows in the browser's cookies table
MaxRows == 2
\* cookie entries in the initial storage document
MaxStored == 2
\* runs of main in one behaviour
MaxRuns == 2
\* bytes chosen freely at the end of a decrypted block string
MaxTail == 2
\* 16-byte blocks of a ciphertext
MaxBlocks == 2

---------------------------------------------------------------------------
(* Python's str and bytes operations used by the program.                  *)

Dot == "."

StartsWith(s, p) == Len(s) >= Len(p) /\ SubSeq(s, 1, Len(p)) = p

EndsWith(s, p) == Len(s) >= Len(p) /\ SubSeq(s, Len(s) - Len(p) + 1, Len(s)) = p

Contains(s, ch) == \E i \in 1..Len(s) : s[i] = ch

RECURSIVE LStrip(_, _)
\* s.lstrip(ch): every leading ch is removed, not only the first
LStrip(s, ch) ==
    IF s # <<>> /\ s[1] = ch THEN LStrip(Tail(s), ch) ELSE s

RECURSIVE Split(_, _)
\* s.split(ch): the parts between the separators, empty parts included
Split(s, ch) ==
    IF ~Contains(s, ch)
    THEN <<s>>
    ELSE LET i == CHOOSE k \in 1..Len(s) :
                     s[k] = ch /\ \A j \in 1..(k - 1) : s[j] # ch
         IN  <<SubSeq(s, 1, i - 1)>> \o Split(SubSeq(s, i + 1, Len(s)), ch)

RECURSIVE Join(_, _)
\* ch.join(parts)
Join(parts, ch) ==
    IF parts = <<>> THEN <<>>
    ELSE IF Len(parts) = 1 THEN parts[1]
    ELSE parts[1] \o <<ch>> \o Join(Tail(parts), ch)

\* data[:k] for a Python slice bound k (negative counts from the end)
SliceTo(data, k) ==
    LET n == Len(data)
        stop == IF k < 0 THEN (IF n + k < 0 THEN 0 ELSE n + k)
                ELSE (IF k > n THEN n ELSE k)
    IN  SubSeq(data, 1, stop)

\* data[k:] for a Python slice bound k >= 0
SliceFrom(data, k) == IF k >= Len(data) THEN <<>> ELSE SubSeq(data, k + 1, Len(data))

\* bytes.decode('utf-8', errors='ignore') on byte strings whose bytes above
\* 127 are 0xFF, which starts no UTF-8 sequence and is dropped
Utf8Ignore(bytes) == SelectSeq(bytes, LAMBDA b : b < 128)

\* text.encode() on the text the model uses
Alphabet == <<".", "-", "_", "H", "a", "b", "c", "d", "e", "g", "h", "i", "l",
              "m", "n", "o", "p", "r", "s", "t", "u", "v", "w", "x">>

CharCode(c) == CHOOSE i \in 1..Len(Alphabet) : Alphabet[i] = c

RECURSIVE WeightedSum(_, _)
WeightedSum(s, k) ==
    IF s = <<>> THEN 0 ELSE (k * CharCode(s[1]) + WeightedSum(Tail(s), k + 1)) % 251

---------------------------------------------------------------------------
(* Cookie.decrypted                                                        *)

\* LENGTH, also the cipher's block size
LENGTH == 16
\* length of a SHA-256 digest, the literal 32 of decrypted
DigestLen == 32

V10 == <<118, 49, 48>>
V11 == <<118, 49, 49>>

\* hashlib.sha256(text.encode()).digest(): 32 bytes fixed by the text, here
\* different for the different host keys of the model
Sha256(text) ==
    LET h == WeightedSum(text, 1)
    IN  [i \in 1..DigestLen |-> (h * 31 + i * 7) % 256]

\* PBKDF2(password.encode(), SALT, dkLen=LENGTH, count=ITERATIONS): the key,
\* fixed by the password
PBKDF2(pw) == 1 + WeightedSum(pw, 1)

\* AES.new(key, MODE_CBC, IV).decrypt(data): raises ValueError unless the
\* data is a whole number of 16-byte blocks; otherwise a keyed bijection of
\* byte strings that keeps the length (every block string is the decryption
\* of exactly one ciphertext)
CbcDecrypt(key, data) ==
    IF Len(data) % LENGTH # 0
    THEN [raised |-> TRUE, val |-> <<>>]
    ELSE [raised |-> FALSE,
          val |-> [i \in 1..Len(data) |-> (data[i] + 256 - (key % 256)) % 256]]

\* the inverse bijection: the ciphertext of a block string
CbcEncrypt(key, data) == [i \in 1..Len(data) |-> (data[i] + key) % 256]

\* Cookie._unpad: the data without its padding, or that it raised
\* (ValueError for a bad padding, IndexError for data too short)
_unpad(data) ==
    IF data = <<>>
    THEN [raised |-> TRUE, val |-> <<>>]
    ELSE LET padding == data[Len(data)]
         IN  IF padding > 16
             THEN [raised |-> TRUE, val |-> <<>>]
             ELSE IF \E i \in 1..padding :
                        i > Len(data) \/ data[Len(data) - i + 1] # padding
             THEN [raised |-> TRUE, val |-> <<>>]
             ELSE [raised |-> FALSE, val |-> SliceTo(data, 0 - padding)]

\* lines 66-69: the padding removed, the raw bytes when _unpad raises
Unpadded(decrypted) ==
    LET u == _unpad(decrypted)
    IN  IF u.raised THEN decrypted ELSE u.val

\* lines 73-83: the domain hash removed when it is there, then decoded
StripHash(plaintext, host_key) ==
    IF Len(plaintext) >= DigestLen
    THEN IF SliceTo(plaintext, DigestLen) = Sha256(host_key)
         THEN Utf8Ignore(SliceFrom(plaintext, DigestLen))
         ELSE Utf8Ignore(plaintext)
    ELSE Utf8Ignore(plaintext)

\* Cookie.decrypted(password): [raised, val]
Decrypted(c, pw) ==
    IF c.value # <<>>
    THEN [raised |-> FALSE, val |-> c.value]
    ELSE IF Len(c.encrypted) > 0
    THEN IF SliceTo(c.encrypted, 3) \in {V10, V11}
         THEN LET d == CbcDecrypt(PBKDF2(pw), SliceFrom(c.encrypted, 3))
              IN  IF d.raised
                  THEN [raised |-> TRUE, val |-> <<>>]
                  ELSE [raised |-> FALSE,
                        val |-> StripHash(Unpadded(d.val), c.host_key)]
         ELSE [raised |-> FALSE, val |-> Utf8Ignore(c.encrypted)]
    ELSE [raised |-> FALSE, val |-> <<>>]

---------------------------------------------------------------------------
(* A single call of Cookie.decrypted, step by step.                        *)

HostDotGithub == <<".", "g", "i", "t", "h", "u", "b", ".", "c", "o", "m">>
HostGithub == <<"g", "i", "t", "h", "u", "b", ".", "c", "o", "m">>
HostDotAnthropic == <<".", "a", "n", "t", "h", "r", "o", "p", "i", "c", ".", "c", "o", "m">>
HostConsole == <<"c", "o", "n", "s", "o", "l", "e", ".", "a", "n", "t", "h", "r", "o", "p", "i", "c", ".", "c", "o", "m">>
HostDotExampleOrg == <<".", "e", "x", "a", "m", "p", "l", "e", ".", "o", "r", "g">>

\* what the keychain holds
KeychainPassword == <<"p", "e", "a", "n", "u", "t", "s">>

Key == PBKDF2(KeychainPassword)

Fill(b, n) == [i \in 1..n |-> b]

\* bytes at the end of a block string: paddings 0, 1, 2, 16, the invalid 17,
\* a letter and the undecodable 0xFF
TailBytes == {0, 1, 2, 16, 17, 97, 255}
FillBytes == {2, 16, 97}

Tails == UNION {[1..n -> TailBytes] : n \in 0..MaxTail}

\* block strings without and with the domain hash in front
PlainOld == {Fill(f, LENGTH * k - Len(t)) \o t :
                 f \in FillBytes, t \in Tails, k \in 1..MaxBlocks}
PlainHashed(h) == {Sha256(h) \o Fill(f, LENGTH - Len(t)) \o t :
                       f \in FillBytes, t \in Tails}

\* stored encrypted values: empty, unversioned, versioned with every block
\* string above, versioned with a remainder that is empty or no whole block
EncryptedValues ==
    {<<>>, <<97, 98, 99>>, <<255, 97>>}
    \cup {V10 \o CbcEncrypt(Key, p) : p \in PlainOld \cup PlainHashed(HostGithub)}
    \cup {V11 \o CbcEncrypt(Key, p) : p \in PlainHashed(HostDotGithub)}
    \cup {V10 \o Fill(7, n) : n \in {0, 5, LENGTH + 1}}

DecryptInputs ==
    {[value |-> <<>>, encrypted |-> e, host_key |-> HostGithub] : e \in EncryptedValues}
    \cup {[value |-> <<118>>, encrypted |-> e, host_key |-> HostGithub] :
              e \in {<<>>, V10 \o Fill(7, 5)}}

NoResult == [raised |-> FALSE, val |-> <<>>]

DecIdle ==
    /\ dpc = "off"
    /\ dcookie = [value |-> <<>>, encrypted |-> <<>>, host_key |-> <<>>]
    /\ ddecrypted = <<>>
    /\ dplaintext = <<>>
    /\ dresult = NoResult

\* lines 52-63 and 84-88: the early returns, or the cipher's output
D_Cipher ==
    /\ dpc = "call"
    /\ LET enc == dcookie.encrypted
           versioned == dcookie.value = <<>> /\ Len(enc) > 0
                        /\ SliceTo(enc, 3) \in {V10, V11}
           d == CbcDecrypt(Key, SliceFrom(enc, 3))
       IN  IF ~versioned
           THEN /\ dresult' = Decrypted(dcookie, KeychainPassword)
                /\ dpc' = "done"
                /\ UNCHANGED ddecrypted
           ELSE IF d.raised
           THEN /\ dresult' = [raised |-> TRUE, val |-> <<>>]
                /\ dpc' = "done"
                /\ UNCHANGED ddecrypted
           ELSE /\ ddecrypted' = d.val
                /\ dpc' = "unpad"
                /\ UNCHANGED dresult
    /\ UNCHANGED <<dcookie, dplaintext, mainVars>>

\* lines 65-69
D_Unpad ==
    /\ dpc = "unpad"
    /\ dplaintext' = Unpadded(ddecrypted)
    /\ dpc' = "hash"
    /\ UNCHANGED <<dcookie, ddecrypted, dresult, mainVars>>

\* lines 71-83
D_Hash ==
    /\ dpc = "hash"
    /\ dresult' = [raised |-> FALSE, val |-> StripHash(dplaintext, dcookie.host_key)]
    /\ dpc' = "done"
    /\ UNCHANGED <<dcookie, ddecrypted, dplaintext, mainVars>>

---------------------------------------------------------------------------
(* get_cookies: the domain variants and the query.                         *)

\* lines 134-150: the list of host keys to query
DomainsToQuery(d) ==
    LET exact == <<d>>
        dotted == IF ~StartsWith(d, <<Dot>>) THEN <<<<Dot>> \o d>> ELSE <<>>
        parts == Split(d, Dot)
        parents == IF Contains(d, Dot) /\ ~StartsWith(d, <<Dot>>)
                   THEN [i \in 1..(Len(parts) - 1) |->
                            <<Dot>> \o Join(SubSeq(parts, i + 1, Len(parts)), Dot)]
                   ELSE <<>>
    IN  exact \o dotted \o parents

\* lines 169-180: the Cookie object of a row; the value column is decoded
MakeCookie(row, d) ==
    [name |-> row.name, value |-> Utf8Ignore(row.value), domain |-> d,
     path |-> row.path, encrypted |-> row.encrypted_value,
     expires |-> row.expires_utc, is_secure |-> row.is_secure,
     is_httponly |-> row.is_httponly, same_site |-> row.samesite,
     host_key |-> row.host_key]

\* lines 153-180: the rows whose host key equals one of the variants
QueryRows(table, d) ==
    LET q == DomainsToQuery(d)
        hit(row) == \E i \in 1..Len(q) : row.host_key = q[i]
        rows == SelectSeq(table, hit)
    IN  [i \in 1..Len(rows) |-> MakeCookie(rows[i], d)]

---------------------------------------------------------------------------
(* main: the conversion to the automation tool's format and the merge.     *)

HostPrefix == <<"_", "_", "H", "o", "s", "t", "-">>

\* lines 231-235
OutDomain(c) ==
    IF StartsWith(c.name, HostPrefix)
    THEN LStrip(c.host_key, Dot)
    ELSE IF StartsWith(c.host_key, <<Dot>>) THEN c.host_key ELSE <<Dot>> \o c.host_key

\* line 244: ["None", "Lax", "Strict"][same_site] if same_site < 3 else "None";
\* a negative index counts from the end of the list, one below -3 raises
\* IndexError
SameSite(n) ==
    LET names == <<"None", "Lax", "Strict">>
    IN  IF n < 3
        THEN IF n >= 0 THEN [raised |-> FALSE, val |-> names[n + 1]]
             ELSE IF n >= -3 THEN [raised |-> FALSE, val |-> names[n + 4]]
             ELSE [raised |-> TRUE, val |-> "None"]
        ELSE [raised |-> FALSE, val |-> "None"]

\* seconds from 1601 to 1970, in the model's time unit of 100 seconds
\* (expires_utc is kept in units of 100 s instead of microseconds)
EpochOffset == 116444736

\* lines 237-249: the entry of a cookie; expires only for a persistent one
CookieDict(c, value) ==
    LET base == [name |-> c.name, value |-> value, domain |-> OutDomain(c),
                 path |-> c.path, httpOnly |-> c.is_httponly # 0,
                 secure |-> c.is_secure # 0,
                 sameSite |-> SameSite(c.same_site).val]
    IN  IF c.expires > 0
        THEN [name |-> base.name, value |-> base.value, domain |-> base.domain,
              path |-> base.path, httpOnly |-> base.httpOnly,
              secure |-> base.secure, sameSite |-> base.sameSite,
              expires |-> c.expires - EpochOffset]
        ELSE base

RECURSIVE Convert(_, _)
\* lines 227-250: the fresh batch, or the exception of the first cookie that
\* raises; a cookie whose decrypted value is empty is skipped
Convert(cs, pw) ==
    IF cs = <<>>
    THEN [err |-> "none", out |-> <<>>]
    ELSE LET c == Head(cs)
             d == Decrypted(c, pw)
         IN  IF d.raised THEN [err |-> "ValueError", out |-> <<>>]
             ELSE IF d.val = <<>> THEN Convert(Tail(cs), pw)
             ELSE IF SameSite(c.same_site).raised
             THEN [err |-> "IndexError", out |-> <<>>]
             ELSE LET rest == Convert(Tail(cs), pw)
                  IN  IF rest.err # "none" THEN rest
                      ELSE [err |-> "none", out |-> <<CookieDict(c, d.val)>> \o rest.out]

\* an eviction that looks at the requested domain only, not at its variants
EvictedRequestedOnly(c, queried) ==
    EndsWith(c.domain, LStrip(queried[1], Dot))

\* an eviction by equality of the domains instead of a suffix test
EvictedEqual(c, queried) ==
    \E i \in 1..Len(queried) : LStrip(c.domain, Dot) = LStrip(queried[i], Dot)

\* line 256: any(c["domain"].endswith(d.lstrip('.')) for d in domains_queried)
Evicted(c, queried) ==
    \E i \in 1..Len(queried) : EndsWith(c.domain, LStrip(queried[i], Dot))

\* line 224
EmptyShape == [cookies |-> <<>>, origins |-> <<>>]

\* lines 220-224: the parsed document, the empty shape when open or
\* json.load raises
LoadState(f) == IF f.kind = "json" THEN f.doc ELSE EmptyShape

\* lines 254-257 raise KeyError on a document without cookies or on an entry
\* without domain
EvictRaises(st, queried) ==
    \/ "cookies" \notin DOMAIN st
    \/ /\ Len(queried) > 0
       /\ \E i \in 1..Len(st.cookies) : "domain" \notin DOMAIN st.cookies[i]

---------------------------------------------------------------------------
(* The inputs of the model: command lines, cookie tables, storage files.   *)

GithubCom == <<"g", "i", "t", "h", "u", "b", ".", "c", "o", "m">>
ConsoleAnthropicCom == <<"c", "o", "n", "s", "o", "l", "e", ".", "a", "n", "t", "h", "r", "o", "p", "i", "c", ".", "c", "o", "m">>

Localhost == <<"l", "o", "c", "a", "l", "h", "o", "s", "t">>

\* sys.argv[1]: a domain, a subdomain, a dotted domain, a single label
Domains == {GithubCom, ConsoleAnthropicCom, HostDotGithub, Localhost}

NameSid == <<"s", "i", "d">>
NameTheme == <<"t", "h", "e", "m", "e">>
NameHostSid == <<"_", "_", "H", "o", "s", "t", "-", "s", "i", "d">>
RootPath == <<"/">>

\* PKCS#7: 1 to 16 bytes, each the number of bytes added
Pkcs7(bytes) ==
    LET p == LENGTH - (Len(bytes) % LENGTH)
    IN  bytes \o Fill(p, p)

\* the value "abc" and how the browser stores it, before and after it began
\* to put the hash of the host key in front
Abc == <<97, 98, 99>>
EncOld(text) == V10 \o CbcEncrypt(Key, Pkcs7(text))
EncNew(host, text) == V10 \o CbcEncrypt(Key, Sha256(host) \o Pkcs7(text))

\* an expiry in 2022, 1655526400 s after 1970, in units of 100 s after 1601
Persistent == EpochOffset + 16555264

Row(name, host, value, enc, samesite, expires) ==
    [name |-> name, value |-> value, host_key |-> host, path |-> RootPath,
     encrypted_value |-> enc, expires_utc |-> expires, is_secure |-> 1,
     is_httponly |-> 0, samesite |-> samesite]

\* rows a cookies table may hold
RowUniverse == <<
    Row(NameSid, HostDotGithub, <<>>, EncNew(HostDotGithub, Abc), 1, Persistent),
    Row(NameSid, HostGithub, <<>>, EncOld(Abc), 0, 0),
    Row(NameHostSid, HostGithub, Abc, <<>>, 2, 0),
    Row(NameSid, HostDotAnthropic, <<>>, EncOld(Abc), 3, Persistent),
    Row(NameSid, HostConsole, Abc, <<>>, -1, 0),
    Row(NameTheme, HostDotGithub, <<>>, V10 \o Fill(7, 5), 1, 0),
    Row(NameTheme, HostDotAnthropic, Abc, <<>>, -4, 0),
    Row(NameTheme, HostGithub, <<>>, <<>>, 1, 0),
    Row(NameTheme, HostConsole, <<>>, <<255, 97>>, 1, 0),
    Row(NameSid, HostDotExampleOrg, Abc, <<>>, 1, 0) >>

RECURSIVE PickRows(_)
PickRows(S) ==
    IF S = {} THEN <<>>
    ELSE LET m == CHOOSE x \in S : \A y \in S : x <= y
         IN  <<RowUniverse[m]>> \o PickRows(S \ {m})

\* the tables: at most MaxRows of the rows, in rowid order
Tables == {PickRows(S) : S \in {T \in SUBSET (1..Len(RowUniverse)) : Cardinality(T) <= MaxRows}}

Stored(name, dom) ==
    [name |-> name, value |-> Abc, domain |-> dom, path |-> RootPath,
     httpOnly |-> FALSE, secure |-> TRUE, sameSite |-> "Lax"]

\* cookie entries the storage file may hold before the first run
StoredUniverse == <<
    Stored(NameSid, <<".", "e", "x", "a", "m", "p", "l", "e", ".", "c", "o", "m">>),
    Stored(NameSid, <<".", "e", "x", "a", "m", "p", "l", "e", ".", "o", "r", "g">>),
    Stored(NameSid, <<".", "g", "i", "t", "h", "u", "b", ".", "c", "o", "m">>),
    Stored(NameSid, <<"a", "p", "i", ".", "g", "i", "t", "h", "u", "b", ".", "c", "o", "m">>),
    Stored(NameSid, <<"m">>) >>

StoredLists ==
    UNION {{[i \in 1..n |-> StoredUniverse[f[i]]] :
               f \in {g \in [1..n -> 1..Len(StoredUniverse)] :
                         \A i \in 1..n, j \in 1..n : i < j => g[i] <= g[j]}} :
           n \in 0..MaxStored}

Origins == <<"https://example.org">>

\* the storage file: absent, not JSON, a well-formed document, an object
\* without a cookies list, a cookies list with an entry without domain
Files ==
    {[kind |-> "missing"], [kind |-> "garbage"]}
    \cup {[kind |-> "json", doc |-> [cookies |-> l, origins |-> Origins]] : l \in StoredLists}
    \cup {[kind |-> "json", doc |-> [origins |-> Origins]],
          [kind |-> "json",
           doc |-> [cookies |-> <<[name |-> NameSid, value |-> Abc, path |-> RootPath]>>,
                    origins |-> Origins]]}

NoPrev == [ok |-> FALSE, domain |-> <<>>, batch |-> <<>>]

---------------------------------------------------------------------------
(* main, step by step.                                                     *)

MainIdle ==
    /\ pc = "idle"
    /\ domain = <<>>
    /\ tmpExists = FALSE
    /\ pending = "none"
    /\ password = <<>>
    /\ cookies = <<>>
    /\ domains_queried = <<>>
    /\ storage_state = EmptyShape
    /\ new_cookies = <<>>
    /\ err = "none"
    /\ writes = 0
    /\ fileBefore = file
    /\ runs = 0
    /\ prev = NoPrev

Init ==
    /\ file \in Files
    /\ db \in Tables
    /\ MainIdle
    /\ DecIdle

locals == <<password, cookies, domains_queried, storage_state, new_cookies>>

\* a failure that ends the run: line 270-271, or sys.exit(1) itself
Fail(e) ==
    /\ err' = e
    /\ pc' = "exit1"

\* lines 192-194: no domain on the command line
Usage ==
    /\ pc = "idle"
    /\ runs < MaxRuns
    /\ runs' = runs + 1
    /\ Fail("usage")
    /\ UNCHANGED <<domain, file, db, tmpExists, pending, locals, writes,
                   fileBefore, prev, decVars>>

\* lines 196-205: the command line is read, the cookies directory is made
Start ==
    /\ pc = "idle"
    /\ runs < MaxRuns
    /\ runs' = runs + 1
    /\ \E d \in Domains : domain' = d
    /\ pc' = "get_password"
    /\ UNCHANGED <<file, db, tmpExists, pending, locals, err, writes,
                   fileBefore, prev, decVars>>

\* get_password, lines 102-113, called at line 209
GetPassword ==
    /\ pc = "get_password"
    /\ \E outcome \in {"ok", "NotImplementedError", "KeychainError"} :
          IF outcome = "ok"
          THEN /\ password' = KeychainPassword
               /\ pc' = "gc_open"
               /\ UNCHANGED err
          ELSE /\ Fail(outcome)
               /\ UNCHANGED password
    /\ UNCHANGED <<domain, file, db, tmpExists, pending, cookies, domains_queried,
                   storage_state, new_cookies, writes, fileBefore, runs, prev, decVars>>

\* get_cookies, lines 118-126: the database is looked up, the temporary
\* file is created
GC_Open ==
    /\ pc = "gc_open"
    /\ \E exists \in BOOLEAN :
          IF exists
          THEN /\ tmpExists' = TRUE
               /\ pc' = "gc_copy"
               /\ UNCHANGED err
          ELSE /\ Fail("FileNotFoundError")
               /\ UNCHANGED tmpExists
    /\ UNCHANGED <<domain, file, db, pending, locals, writes, fileBefore, runs,
                   prev, decVars>>

\* line 129, inside the try: the copy, which may fail
GC_Copy ==
    /\ pc = "gc_copy"
    /\ \E ok \in BOOLEAN :
          IF ok
          THEN /\ pc' = "gc_query"
               /\ UNCHANGED pending
          ELSE /\ pending' = "OSError"
               /\ pc' = "gc_finally"
    /\ UNCHANGED <<domain, file, db, tmpExists, locals, err, writes, fileBefore,
                   runs, prev, decVars>>

\* lines 131-165: the variants are built and the query is executed, which
\* may fail (the copy is no database, the table is missing)
GC_Query ==
    /\ pc = "gc_query"
    /\ domains_queried' = DomainsToQuery(domain)
    /\ \E ok \in BOOLEAN :
          IF ok
          THEN /\ pc' = "gc_rows"
               /\ UNCHANGED pending
          ELSE /\ pending' = "sqlite3.Error"
               /\ pc' = "gc_finally"
    /\ UNCHANGED <<domain, file, db, tmpExists, password, cookies, storage_state,
                   new_cookies, err, writes, fileBefore, runs, prev, decVars>>

\* lines 167-183: the rows are fetched and decoded, which may fail
GC_Rows ==
    /\ pc = "gc_rows"
    /\ \E ok \in BOOLEAN :
          IF ok
          THEN /\ cookies' = QueryRows(db, domain)
               /\ UNCHANGED pending
          ELSE /\ pending' = "sqlite3.Error"
               /\ UNCHANGED cookies
    /\ pc' = "gc_finally"
    /\ UNCHANGED <<domain, file, db, tmpExists, password, domains_queried,
                   storage_state, new_cookies, err, writes, fileBefore, runs,
                   prev, decVars>>

\* a cleanup that only runs when the body of the try has not raised
TempAfterSuccessOnly(exists, exc) ==
    IF exc = "none" /\ exists THEN FALSE ELSE exists

\* the finally of lines 185-188, entered with or without a pending
\* exception: whether the temporary file exists after it
TempAfterFinally(exists, exc) ==
    IF exists THEN FALSE ELSE exists

\* lines 185-188, then the return to line 212 or the exception's way to
\* line 269
GC_Finally ==
    /\ pc = "gc_finally"
    /\ tmpExists' = TempAfterFinally(tmpExists, pending)
    /\ IF pending = "none"
       THEN /\ pc' = "check"
            /\ UNCHANGED err
       ELSE Fail(pending)
    /\ pending' = "none"
    /\ UNCHANGED <<domain, file, db, locals, writes, fileBefore, runs, prev, decVars>>

\* lines 214-217
CheckCookies ==
    /\ pc = "check"
    /\ IF cookies = <<>>
       THEN Fail("NoCookies")
       ELSE /\ pc' = "load"
            /\ UNCHANGED err
    /\ UNCHANGED <<domain, file, db, tmpExists, pending, locals, writes,
                   fileBefore, runs, prev, decVars>>

\* lines 219-224
Load ==
    /\ pc = "load"
    /\ storage_state' = LoadState(file)
    /\ pc' = "convert"
    /\ UNCHANGED <<domain, file, db, tmpExists, pending, password, cookies,
                   domains_queried, new_cookies, err, writes, fileBefore, runs,
                   prev, decVars>>

\* lines 226-250
ConvertCookies ==
    /\ pc = "convert"
    /\ LET r == Convert(cookies, password)
       IN  IF r.err = "none"
           THEN /\ new_cookies' = r.out
                /\ pc' = "evict"
                /\ UNCHANGED err
           ELSE /\ Fail(r.err)
                /\ UNCHANGED new_cookies
    /\ UNCHANGED <<domain, file, db, tmpExists, pending, password, cookies,
                   domains_queried, storage_state, writes, fileBefore, runs,
                   prev, decVars>>

\* lines 252-257
Evict ==
    /\ pc = "evict"
    /\ IF EvictRaises(storage_state, domains_queried)
       THEN /\ Fail("KeyError")
            /\ UNCHANGED storage_state
       ELSE /\ storage_state' =
                  [storage_state EXCEPT
                      !.cookies = SelectSeq(@, LAMBDA c : ~Evicted(c, domains_queried))]
            /\ pc' = "extend"
            /\ UNCHANGED err
    /\ UNCHANGED <<domain, file, db, tmpExists, pending, password, cookies,
                   domains_queried, new_cookies, writes, fileBefore, runs, prev,
                   decVars>>

\* lines 258-259
Extend ==
    /\ pc = "extend"
    /\ storage_state' = [storage_state EXCEPT !.cookies = @ \o new_cookies]
    /\ pc' = "write"
    /\ UNCHANGED <<domain, file, db, tmpExists, pending, password, cookies,
                   domains_queried, new_cookies, err, writes, fileBefore, runs,
                   prev, decVars>>

\* lines 261-263: json.dump of what json.load or line 224 gave, with the
\* fresh entries
Write ==
    /\ pc = "write"
    /\ file' = [kind |-> "json", doc |-> storage_state]
    /\ writes' = writes + 1
    /\ pc' = "report"
    /\ UNCHANGED <<domain, db, tmpExists, pending, locals, err, fileBefore, runs,
                   prev, decVars>>

\* lines 265-267, still inside the try: the first line printed starts with
\* U+2713, which print cannot encode unless the encoding of standard output
\* has it (UTF-8 has, ASCII and Latin-1 have not), raising UnicodeEncodeError
Report ==
    /\ pc = "report"
    /\ \E encodable \in BOOLEAN :
          IF encodable
          THEN /\ pc' = "exit0"
               /\ UNCHANGED err
          ELSE Fail("UnicodeEncodeError")
    /\ UNCHANGED <<domain, file, db, tmpExists, pending, locals, writes,
                   fileBefore, runs, prev, decVars>>

\* the process has ended; the next run of the program starts afresh
Restart ==
    /\ pc \in {"exit0", "exit1"}
    /\ runs < MaxRuns
    /\ prev' = IF pc = "exit0"
               THEN [ok |-> TRUE, domain |-> domain, batch |-> new_cookies]
               ELSE NoPrev
    /\ pc' = "idle"
    /\ domain' = <<>>
    /\ password' = <<>>
    /\ cookies' = <<>>
    /\ domains_queried' = <<>>
    /\ storage_state' = EmptyShape
    /\ new_cookies' = <<>>
    /\ err' = "none"
    /\ writes' = 0
    /\ fileBefore' = file
    /\ UNCHANGED <<file, db, tmpExists, pending, runs, decVars>>

Next ==
    \/ Usage
    \/ Start
    \/ GetPassword
    \/ GC_Open
    \/ GC_Copy
    \/ GC_Query
    \/ GC_Rows
    \/ GC_Finally
    \/ CheckCookies
    \/ Load
    \/ ConvertCookies
    \/ Evict
    \/ Extend
    \/ Write
    \/ Report
    \/ Restart

Spec == Init /\ [][Next]_vars

---------------------------------------------------------------------------
(* Cookie.decrypted on its own, over the stored values of DecryptInputs.   *)

MainOff ==
    /\ pc = "off"
    /\ domain = <<>>
    /\ file = [kind |-> "missing"]
    /\ db = <<>>
    /\ tmpExists = FALSE
    /\ pending = "none"
    /\ password = KeychainPassword
    /\ cookies = <<>>
    /\ domains_queried = <<>>
    /\ storage_state = EmptyShape
    /\ new_cookies = <<>>
    /\ err = "none"
    /\ writes = 0
    /\ fileBefore = file
    /\ runs = 0
    /\ prev = NoPrev

InitDecrypt ==
    /\ MainOff
    /\ dpc = "call"
    /\ dcookie \in DecryptInputs
    /\ ddecrypted = <<>>
    /\ dplaintext = <<>>
    /\ dresult = NoResult

NextDecrypt ==
    \/ D_Cipher
    \/ D_Unpad
    \/ D_Hash

SpecDecrypt == InitDecrypt /\ [][NextDecrypt]_vars

---------------------------------------------------------------------------
(* The claims.                                                             *)

\* main is past the conversion of line 226-250 in a run that has not failed
Converted == pc \in {"evict", "extend", "write", "report", "exit0"}

\* the cookies of the storage file as the run found them
LoadedCookies == LoadState(fileBefore).cookies

\* the entries of the written list that come before the fresh batch
KeptCookies ==
    SubSeq(storage_state.cookies, 1, Len(storage_state.cookies) - Len(new_cookies))

NoDuplicates(list) ==
    \A i \in 1..Len(list), j \in 1..Len(list) :
        i # j => <<list[i].name, list[i].domain, list[i].path>>
                   # <<list[j].name, list[j].domain, list[j].path>>

\* a is the text b from some position on
IsSuffixOf(a, b) == \E k \in 0..Len(b) : SliceFrom(b, k) = a

\* the text without its leading dot, if it has one
WithoutLeadingDot(s) == IF s # <<>> /\ s[1] = Dot THEN Tail(s) ELSE s

\* the text without any of its leading dots
WithoutLeadingDots(s) ==
    CHOOSE t \in {SliceFrom(s, k) : k \in 0..Len(s)} :
        /\ t = <<>> \/ t[1] # Dot
        /\ \A i \in 1..(Len(s) - Len(t)) : s[i] = Dot

\* C1: the variant list of console.anthropic.com is the exact domain, its
\* dotted form and .anthropic.com; that of github.com is the exact domain and
\* its dotted form; no variant is made of the last label only and none occurs
\* twice.
C1_VariantList ==
    domains_queried # <<>> =>
        LET parts == Split(domain, Dot)
            last == <<Dot>> \o parts[Len(parts)]
        IN  /\ domain = ConsoleAnthropicCom =>
                  domains_queried = <<ConsoleAnthropicCom, (<<Dot>> \o ConsoleAnthropicCom), HostDotAnthropic>>
            /\ domain = GithubCom => domains_queried = <<GithubCom, HostDotGithub>>
            /\ ~StartsWith(domain, <<Dot>>) =>
                  /\ \A i \in 1..Len(domains_queried) :
                        Len(parts) > 1 => domains_queried[i] # last
                  /\ \A i \in 1..Len(domains_queried), j \in 1..Len(domains_queried) :
                        i # j => domains_queried[i] # domains_queried[j]

\* C2 as stated: after two successive successful runs for the same domain
\* the stored list holds no two entries with the same name, domain and path.
C2_NoDuplicatesAfterSecondRun ==
    (pc = "exit0" /\ prev.ok /\ prev.domain = domain) =>
        NoDuplicates(file.doc.cookies)

\* C2 as amended: after two successive successful runs for the same domain
\* the stored list is the list the first run wrote: the second run evicts
\* every cookie the first run appended (what it keeps is what the first run
\* kept) and appends the same batch; two entries of it have the same name,
\* domain and path only if two kept entries or two entries of the batch have.
C2_SecondRunReplacesFirst ==
    (pc = "exit0" /\ prev.ok /\ prev.domain = domain) =>
        LET old == fileBefore.doc.cookies
        IN  /\ KeptCookies = SubSeq(old, 1, Len(old) - Len(prev.batch))
            /\ new_cookies = prev.batch
            /\ file.doc.cookies = old
            /\ NoDuplicates(file.doc.cookies)
                  <=> (NoDuplicates(KeptCookies) /\ NoDuplicates(new_cookies))

\* a second successful run for the same domain that kept an entry and
\* appended a batch
C2_Witness ==
    /\ pc = "exit0" /\ prev.ok /\ prev.domain = domain
    /\ prev.batch # <<>>
    /\ KeptCookies # <<>>
    /\ \E i \in 1..Len(prev.batch) : prev.batch[i].domain = HostDotAnthropic

\* C3 as stated: the eviction drops exactly the stored cookies whose domain,
\* without its leading dot, is a suffix of a queried variant without its
\* leading dot.
C3_EvictionAsStated ==
    pc = "extend" =>
        storage_state.cookies =
            SelectSeq(LoadedCookies,
                      LAMBDA c : ~(\E i \in 1..Len(domains_queried) :
                                      IsSuffixOf(WithoutLeadingDot(c.domain),
                                                 WithoutLeadingDot(domains_queried[i]))))

\* C3 as amended: the eviction drops exactly the stored cookies of whose
\* domain a queried variant, without its leading dots, is a suffix; the other
\* cookies are kept, in their order.
C3_EvictionRule ==
    pc = "extend" =>
        storage_state.cookies =
            SelectSeq(LoadedCookies,
                      LAMBDA c : ~(\E i \in 1..Len(domains_queried) :
                                      IsSuffixOf(WithoutLeadingDots(domains_queried[i]),
                                                 c.domain)))

\* an eviction that dropped a cookie of a subdomain of the requested domain
\* and kept another cookie
C3_Witness ==
    /\ pc = "extend"
    /\ storage_state.cookies # <<>>
    /\ \E i \in 1..Len(LoadedCookies) :
          /\ Len(LoadedCookies[i].domain) > Len(domain) + 1
          /\ IsSuffixOf(domain, LoadedCookies[i].domain)
          /\ \A j \in 1..Len(storage_state.cookies) :
                storage_state.cookies[j] # LoadedCookies[i]

\* the domain belongs to the logical domain set of d: it ends with d or with
\* a parent domain of d of at least two labels
RelatedTo(dom, d) ==
    LET parts == Split(d, Dot)
    IN  \/ EndsWith(dom, d)
        \/ \E i \in 2..(Len(parts) - 1) :
              EndsWith(dom, Join(SubSeq(parts, i, Len(parts)), Dot))

\* C4: a successful run for a domain leaves every stored cookie of an
\* unrelated domain in place, in the same order, and leaves origins as it was.
C4_UnrelatedKept ==
    pc = "exit0" =>
        /\ SelectSeq(LoadedCookies, LAMBDA c : ~RelatedTo(c.domain, domain))
              = SelectSeq(KeptCookies, LAMBDA c : ~RelatedTo(c.domain, domain))
        /\ file.doc.origins = LoadState(fileBefore).origins

\* C5: Cookie.decrypted returns a string for every stored value and never
\* raises.
C5_DecryptedNeverRaises == dpc = "done" => ~dresult.raised

\* the same-site string the mapping is said to give
StatedSameSite(n) ==
    IF n = 1 THEN "Lax" ELSE IF n = 2 THEN "Strict" ELSE "None"

\* C6: every emitted cookie has 0 mapped to None, 1 to Lax, 2 to Strict and
\* every other integer, negative ones too, to None, and the mapping does not
\* raise.
C6_SameSiteMapping ==
    /\ err # "IndexError"
    /\ Converted =>
          LET emitted == SelectSeq(cookies,
                                   LAMBDA c : Decrypted(c, password).val # <<>>)
          IN  /\ Len(emitted) = Len(new_cookies)
              /\ \A i \in 1..Len(new_cookies) :
                    new_cookies[i].sameSite = StatedSameSite(emitted[i].same_site)

\* the storage file holds a document of the expected shape
WellFormed(f) ==
    /\ f.kind = "json"
    /\ "cookies" \in DOMAIN f.doc
    /\ \A i \in 1..Len(f.doc.cookies) : "domain" \in DOMAIN f.doc.cookies[i]

\* C7: a storage file that is missing, is no JSON or has not the expected
\* shape is taken as the empty shape, and the merge never fails on it.
C7_LoadNeverFatal ==
    /\ (pc \in {"convert", "evict"} /\ ~WellFormed(file)) => storage_state = EmptyShape
    /\ err # "KeyError"

\* C8: the temporary copy exists only while get_cookies is between its
\* creation and the end of its finally; it is gone when get_cookies has
\* returned or raised and at the end of the run.
C8_TempRemoved ==
    tmpExists => pc \in {"gc_copy", "gc_query", "gc_rows", "gc_finally"}

\* get_cookies has raised after it had created the temporary file, and the
\* file is gone
C8_Witness ==
    /\ pc = "exit1"
    /\ err \in {"OSError", "sqlite3.Error"}
    /\ ~tmpExists

\* C9: a run that ends in failure leaves the storage file as it was and has
\* not written it; no run writes it more than once.
C9_WriteOnlyOnSuccess ==
    /\ writes <= 1
    /\ pc = "exit1" => (writes = 0 /\ file = fileBefore)

\* C10: of a non-empty decrypted byte string with last byte p, the plaintext
\* is the string without its last p bytes if p is at most 16 and the last p
\* bytes all are p, and the whole string otherwise; a last byte 0 removes
\* nothing.
C10_PaddingRemoval ==
    (dpc = "hash" /\ ddecrypted # <<>>) =>
        LET n == Len(ddecrypted)
            p == ddecrypted[n]
        IN  IF p <= 16 /\ p <= n /\ \A i \in 1..p : ddecrypted[n - i + 1] = p
            THEN dplaintext = SubSeq(ddecrypted, 1, n - p)
            ELSE dplaintext = ddecrypted

=============================================================================
